---- MODULE Spec2Model ----
(***************************************************************************)
(* A model of the XStateNet test-migration scripts: the assertion rewrite  *)
(* functions (fix_all_should.py, fix_complex_should.py,                    *)
(* fix_final_should.py, fix_remaining_should.py,                           *)
(* fix_integration_tests.py), the quote rewrites (replace_all_quotes.py,   *)
(* replace_quotes.py) and the file traversals that drive them.             *)
(*                                                                         *)
(* Text buffers are TLA+ strings.  Python's re.sub is modelled by a        *)
(* backtracking matcher over pattern nodes (literal, one class character,  *)
(* greedy or lazy class repetition, group open and close, back-reference), *)
(* tried in the order Python's engine tries them, so that greedy and lazy  *)
(* captures are the ones the scripts obtain.  The texts are ASCII: \w, \d  *)
(* and \s stand for their ASCII members.                                   *)
(***************************************************************************)
EXTENDS Naturals, Sequences, FiniteSets, TLC

VARIABLES fn, shape, original, prev, content, runs,
          script, files, idx, writes, reported, fixed_count, status

vars == <<fn, shape, original, prev, content, runs,
          script, files, idx, writes, reported, fixed_count, status>>

rewriteVars == <<fn, shape, original, prev, content, runs>>
walkVars == <<script, files, idx, writes, reported, fixed_count, status>>

(***************************************************************************)
(* Characters and character classes of the patterns.                       *)
(***************************************************************************)
Lower == {"a","b","c","d","e","f","g","h","i","j","k","l","m",
          "n","o","p","q","r","s","t","u","v","w","x","y","z"}
Upper == {"A","B","C","D","E","F","G","H","I","J","K","L","M",
          "N","O","P","Q","R","S","T","U","V","W","X","Y","Z"}
Digit == {"0","1","2","3","4","5","6","7","8","9"}
Space == {" ", "\t", "\n", "\r", "\f"}

\* [a-zA-Z_]
IdentStart == Lower \cup Upper \cup {"_"}
\* [a-zA-Z0-9_]
IdentChar == IdentStart \cup Digit
\* [a-zA-Z0-9_.\[\]()]
RecvChar == IdentChar \cup {".", "[", "]", "(", ")"}
\* [a-zA-Z0-9_.\[\]()!]
RecvBangChar == RecvChar \cup {"!"}
\* [a-zA-Z0-9_.\[\]()<>=!\s]
RecvBoolChar == RecvChar \cup {"<", ">", "=", "!"} \cup Space

In(set) == [neg |-> FALSE, set |-> set]
NotIn(set) == [neg |-> TRUE, set |-> set]

InCls(c, cls) == IF cls.neg THEN c \notin cls.set ELSE c \in cls.set

CharAt(buf, i) == SubSeq(buf, i, i)

(***************************************************************************)
(* Pattern nodes.                                                          *)
(***************************************************************************)
Lit(s) == [t |-> "lit", s |-> s]
One(cls) == [t |-> "one", cls |-> cls]
Lazy(cls, min) == [t |-> "lazy", cls |-> cls, min |-> min]
Greedy(cls, min) == [t |-> "greedy", cls |-> cls, min |-> min]
Open(g) == [t |-> "open", g |-> g]
Close(g) == [t |-> "close", g |-> g]
Ref(g) == [t |-> "ref", g |-> g]

MaxGroups == 4
NoCaps == [g \in 1..MaxGroups |-> <<0, 0>>]
NoMatch == [ok |-> FALSE, end |-> 0, caps |-> NoCaps]

\* The number of consecutive characters of the class from position pos.
RunLen(buf, pos, cls) ==
  LET stops == {p \in pos..Len(buf) : ~InCls(CharAt(buf, p), cls)}
  IN IF stops = {} THEN Len(buf) + 1 - pos
     ELSE (CHOOSE p \in stops : \A q \in stops : p <= q) - pos

\* The first complete match of nodes k.. at position pos, in the order of
\* Python's backtracking: a lazy repetition tries the fewest characters
\* first, a greedy one the most.
RECURSIVE MatchFrom(_, _, _, _, _)
RECURSIVE LazyTry(_, _, _, _, _)
RECURSIVE GreedyTry(_, _, _, _, _)
MatchFrom(buf, nodes, k, pos, caps) ==
  IF k > Len(nodes) THEN [ok |-> TRUE, end |-> pos, caps |-> caps]
  ELSE LET n == nodes[k] IN
    CASE n.t = "lit" ->
           IF pos + Len(n.s) - 1 <= Len(buf)
              /\ SubSeq(buf, pos, pos + Len(n.s) - 1) = n.s
           THEN MatchFrom(buf, nodes, k + 1, pos + Len(n.s), caps)
           ELSE NoMatch
      [] n.t = "one" ->
           IF pos <= Len(buf) /\ InCls(CharAt(buf, pos), n.cls)
           THEN MatchFrom(buf, nodes, k + 1, pos + 1, caps)
           ELSE NoMatch
      [] n.t = "open" ->
           MatchFrom(buf, nodes, k + 1, pos, [caps EXCEPT ![n.g] = <<pos, 0>>])
      [] n.t = "close" ->
           MatchFrom(buf, nodes, k + 1, pos,
                     [caps EXCEPT ![n.g] = <<caps[n.g][1], pos>>])
      [] n.t = "ref" ->
           LET g == SubSeq(buf, caps[n.g][1], caps[n.g][2] - 1) IN
           IF pos + Len(g) - 1 <= Len(buf)
              /\ SubSeq(buf, pos, pos + Len(g) - 1) = g
           THEN MatchFrom(buf, nodes, k + 1, pos + Len(g), caps)
           ELSE NoMatch
      [] n.t = "lazy" -> LazyTry(buf, nodes, k, pos, caps)
      [] n.t = "greedy" ->
           GreedyTry(buf, nodes, k, pos, caps)

\* The repetition of node k taken j times, the rest of the pattern after it.
\* A lazy repetition keeps the fewest characters with which the rest matches,
\* a greedy one the most.
LazyTry(buf, nodes, k, pos, caps) ==
  LET n == nodes[k]
      counts == n.min..RunLen(buf, pos, n.cls)
      rest == [j \in counts |-> MatchFrom(buf, nodes, k + 1, pos + j, caps)]
      good == {j \in counts : rest[j].ok}
  IN IF good = {} THEN NoMatch
     ELSE rest[CHOOSE j \in good : \A i \in good : j <= i]

GreedyTry(buf, nodes, k, pos, caps) ==
  LET n == nodes[k]
      counts == n.min..RunLen(buf, pos, n.cls)
      rest == [j \in counts |-> MatchFrom(buf, nodes, k + 1, pos + j, caps)]
      good == {j \in counts : rest[j].ok}
  IN IF good = {} THEN NoMatch
     ELSE rest[CHOOSE j \in good : \A i \in good : j >= i]

\* The captured text of group g.
Group(buf, caps, g) == SubSeq(buf, caps[g][1], caps[g][2] - 1)

\* The replacement template: T(s) is literal text, G(g) is \g.
T(s) == [g |-> 0, s |-> s]
G(g) == [g |-> g, s |-> ""]

RECURSIVE Expand(_, _, _, _)
Expand(tmpl, i, buf, caps) ==
  IF i > Len(tmpl) THEN ""
  ELSE (IF tmpl[i].g = 0 THEN tmpl[i].s ELSE Group(buf, caps, tmpl[i].g))
       \o Expand(tmpl, i + 1, buf, caps)

\* re.sub(pattern, template, buf): every non-overlapping match, leftmost
\* first, is replaced; the scan resumes after the end of each match.
RECURSIVE SubFrom(_, _, _)
SubFrom(buf, rule, from) ==
  LET starts == {s \in from..Len(buf) :
                   MatchFrom(buf, rule.pat, 1, s, NoCaps).ok}
  IN IF starts = {} THEN SubSeq(buf, from, Len(buf))
     ELSE LET s == CHOOSE x \in starts : \A y \in starts : x <= y
              r == MatchFrom(buf, rule.pat, 1, s, NoCaps)
          IN SubSeq(buf, from, s - 1) \o Expand(rule.tmpl, 1, buf, r.caps)
             \o SubFrom(buf, rule, r.end)

\* The longest literal among nodes k.. of a pattern.
RECURSIVE LongestLit(_, _)
LongestLit(nodes, k) ==
  IF k > Len(nodes) THEN ""
  ELSE LET rest == LongestLit(nodes, k + 1) IN
       IF nodes[k].t = "lit" /\ Len(nodes[k].s) >= Len(rest)
       THEN nodes[k].s ELSE rest

\* Whether lit occurs in buf at or after position pos.
Occurs(lit, buf, pos) ==
  \E p \in pos..(Len(buf) + 1 - Len(lit)) :
    SubSeq(buf, p, p + Len(lit) - 1) = lit

\* s.startswith(p), s.endswith(p)
StartsWith(s, p) == Len(p) <= Len(s) /\ SubSeq(s, 1, Len(p)) = p

EndsWith(s, p) ==
  Len(p) <= Len(s) /\ SubSeq(s, Len(s) - Len(p) + 1, Len(s)) = p

\* Every match of a pattern holds each of its literals, so a buffer in which
\* one of them does not occur is returned as it is, without a scan.
ReSub(rule, buf) ==
  IF Occurs(rule.need, buf, 1) THEN SubFrom(buf, rule, 1) ELSE buf

\* content = re.sub(...) for each of the rules lo..hi, in order: the first
\* half of the rules, then the second half on the buffer the first left.
RECURSIVE ApplyRange(_, _, _, _)
ApplyRange(rules, lo, hi, buf) ==
  IF lo > hi THEN buf
  ELSE IF lo = hi THEN ReSub(rules[lo], buf)
  ELSE LET mid == (lo + hi) \div 2
           half == ApplyRange(rules, lo, mid, buf)
       IN IF half = buf THEN ApplyRange(rules, mid + 1, hi, buf)
          ELSE ApplyRange(rules, mid + 1, hi, half)

\* content = re.sub(...) for each rule of the list from rule i, in order.
ApplyRules(rules, i, buf) == ApplyRange(rules, i, Len(rules), buf)

Rule(pat, tmpl) == [pat |-> pat, tmpl |-> tmpl, need |-> LongestLit(pat, 1)]

(***************************************************************************)
(* The building blocks the rules share.                                    *)
(***************************************************************************)
\* A receiver of word characters only, (\w+), whatever the class of the rule.
Recv_WordOnly(cls) ==
  <<Open(1), One(In(IdentChar)), Greedy(In(IdentChar), 0), Close(1)>>

\* ([a-zA-Z_]CLS*?) : the receiver, captured as group 1
Recv(cls) == <<Open(1), One(In(IdentStart)), Lazy(In(cls), 0), Close(1)>>
\* ([^)]+)\) : the argument, captured as group g, and the closing parenthesis
Arg(g) == <<Open(g), Greedy(NotIn({")"}), 1), Close(g), Lit(")")>>
\* ([a-zA-Z_][a-zA-Z0-9_]*?) : an identifier, captured as group g
Ident(g) == <<Open(g), One(In(IdentStart)), Lazy(In(IdentChar), 0), Close(g)>>

\* RECV\.Should\(\)\.NAME\(\)
NoArgRule(cls, name, tmpl) ==
  Rule(Recv(cls) \o <<Lit(".Should()." \o name \o "()")>>, tmpl)
\* RECV\.Should\(\)\.NAME\(([^)]+)\)
OneArgRule(cls, name, tmpl) ==
  Rule(Recv(cls) \o <<Lit(".Should()." \o name \o "(")>> \o Arg(2), tmpl)

(***************************************************************************)
(* fix_all_should.py                                                       *)
(***************************************************************************)
FixAllShouldRules == <<
  NoArgRule(RecvChar, "NotBeNull", <<T("Assert.NotNull("), G(1), T(")")>>),
  NoArgRule(RecvChar, "BeNull", <<T("Assert.Null("), G(1), T(")")>>),
  OneArgRule(RecvChar, "Be", <<T("Assert.Equal("), G(2), T(", "), G(1), T(")")>>),
  NoArgRule(RecvChar, "BeTrue", <<T("Assert.True("), G(1), T(")")>>),
  NoArgRule(RecvChar, "BeFalse", <<T("Assert.False("), G(1), T(")")>>),
  OneArgRule(RecvChar, "Contain",
             <<T("Assert.Contains("), G(2), T(", "), G(1), T(")")>>),
  OneArgRule(RecvChar, "NotContain",
             <<T("Assert.DoesNotContain("), G(2), T(", "), G(1), T(")")>>),
  OneArgRule(RecvChar, "HaveCount",
             <<T("Assert.Equal("), G(2), T(", "), G(1), T(".Count)")>>),
  NoArgRule(RecvChar, "BeEmpty", <<T("Assert.Empty("), G(1), T(")")>>),
  NoArgRule(RecvChar, "NotBeEmpty", <<T("Assert.NotEmpty("), G(1), T(")")>>),
  OneArgRule(RecvChar, "BeGreaterThan",
             <<T("Assert.True("), G(1), T(" > "), G(2), T(")")>>),
  OneArgRule(RecvChar, "BeLessThan",
             <<T("Assert.True("), G(1), T(" < "), G(2), T(")")>>),
  OneArgRule(RecvChar, "BeGreaterOrEqualTo",
             <<T("Assert.True("), G(1), T(" >= "), G(2), T(")")>>),
  OneArgRule(RecvChar, "StartWith",
             <<T("Assert.StartsWith("), G(2), T(", "), G(1), T(")")>>),
  OneArgRule(RecvChar, "EndWith",
             <<T("Assert.EndsWith("), G(2), T(", "), G(1), T(")")>>),
  OneArgRule(RecvChar, "BeEquivalentTo",
             <<T("Assert.Equal("), G(2), T(", "), G(1), T(")")>>),
  OneArgRule(RecvChar, "NotBe",
             <<T("Assert.NotEqual("), G(2), T(", "), G(1), T(")")>>)
>>

\* IDENT\.Assert\.NAME\(([^,]+), IDENT\) -> Assert.NAME(\2, \1.\3)
CorrectionRule(name) ==
  Rule(Ident(1) \o <<Lit(".Assert." \o name \o "("), Open(2),
                     Greedy(NotIn({","}), 1), Close(2), Lit(", ")>>
       \o Ident(3) \o <<Lit(")")>>,
       <<T("Assert." \o name \o "("), G(2), T(", "), G(1), T("."), G(3),
         T(")")>>)

\* The rules that repair a call left behind its receiver.
FixAllCorrectionRules == <<
  CorrectionRule("Contains"),
  CorrectionRule("Equal"),
  \* pingHits\.Assert\.Contains\(([^)]+)\)
  Rule(<<Lit("pingHits.Assert.Contains(")>> \o Arg(1),
       <<T("Assert.Contains("), G(1), T(", pingHits)")>>),
  \* pongHits\.Assert\.Contains\(([^)]+)\)
  Rule(<<Lit("pongHits.Assert.Contains(")>> \o Arg(1),
       <<T("Assert.Contains("), G(1), T(", pongHits)")>>)
>>

FixAllRules == FixAllShouldRules \o FixAllCorrectionRules

fix_all_should_patterns(buf) == ApplyRules(FixAllRules, 1, buf)

(***************************************************************************)
(* fix_complex_should.py                                                   *)
(***************************************************************************)
\* RECV\.Contains\(([^)]+)\)\.Should\(\)\.NAME\(\)
ContainsRule(name, tmpl) ==
  Rule(Recv(RecvChar) \o <<Lit(".Contains(")>> \o Arg(2)
       \o <<Lit(".Should()." \o name \o "()")>>, tmpl)

\* \(([^)]+)\s*!=\s*null\s*\?\s*([^:]+)\s*:\s*([^)]+)\)\.Should\(\)\.Be\(([^)]+)\)
TernaryRule ==
  Rule(<<Lit("("), Open(1), Greedy(NotIn({")"}), 1), Close(1),
         Greedy(In(Space), 0), Lit("!="), Greedy(In(Space), 0), Lit("null"),
         Greedy(In(Space), 0), Lit("?"), Greedy(In(Space), 0),
         Open(2), Greedy(NotIn({":"}), 1), Close(2),
         Greedy(In(Space), 0), Lit(":"), Greedy(In(Space), 0),
         Open(3), Greedy(NotIn({")"}), 1), Close(3),
         Lit(").Should().Be(")>> \o Arg(4),
       <<T("Assert.Equal("), G(4), T(", "), G(1), T(" != null ? "), G(2),
         T(" : "), G(3), T(")")>>)

\* The composed rules: RECV.Contains(item).Should().BeTrue() / BeFalse()
FixComplexContainsRules == <<
  ContainsRule("BeTrue", <<T("Assert.Contains("), G(2), T(", "), G(1), T(")")>>),
  ContainsRule("BeFalse",
               <<T("Assert.DoesNotContain("), G(2), T(", "), G(1), T(")")>>)
>>

FixComplexShouldRules == <<
  NoArgRule(RecvBoolChar, "BeTrue", <<T("Assert.True("), G(1), T(")")>>),
  NoArgRule(RecvBoolChar, "BeFalse", <<T("Assert.False("), G(1), T(")")>>),
  NoArgRule(RecvBangChar, "NotBeNull", <<T("Assert.NotNull("), G(1), T(")")>>),
  NoArgRule(RecvBangChar, "BeNull", <<T("Assert.Null("), G(1), T(")")>>),
  OneArgRule(RecvBangChar, "Be",
             <<T("Assert.Equal("), G(2), T(", "), G(1), T(")")>>),
  OneArgRule(RecvBangChar, "NotBe",
             <<T("Assert.NotEqual("), G(2), T(", "), G(1), T(")")>>),
  OneArgRule(RecvBangChar, "Contain",
             <<T("Assert.Contains("), G(2), T(", "), G(1), T(")")>>),
  OneArgRule(RecvBangChar, "HaveCount",
             <<T("Assert.Equal("), G(2), T(", "), G(1), T(".Count)")>>),
  OneArgRule(RecvBangChar, "StartWith",
             <<T("Assert.StartsWith("), G(2), T(", "), G(1), T(")")>>),
  OneArgRule(RecvBangChar, "EndWith",
             <<T("Assert.EndsWith("), G(2), T(", "), G(1), T(")")>>),
  TernaryRule
>>

\* The generic rules first, the composed rules after them.
FixComplexRules_GenericFirst == FixComplexShouldRules \o FixComplexContainsRules

FixComplexRules == FixComplexContainsRules \o FixComplexShouldRules

fix_complex_should_patterns(buf) == ApplyRules(FixComplexRules, 1, buf)

(***************************************************************************)
(* fix_final_should.py (its function is also named                         *)
(* fix_all_should_patterns)                                                *)
(***************************************************************************)
\* RECV\.Should\(\)\.NAME\([^)]*\)
AnyArgRule(cls, name, tmpl) ==
  Rule(Recv(cls) \o <<Lit(".Should()." \o name \o "("),
                      Greedy(NotIn({")"}), 0), Lit(")")>>, tmpl)

\* \(([^)]*is[^)]*\?[^)]*:[^)]*)\)\.Should\(\)\.Be\(([^)]+)\)
IsTernaryRule ==
  Rule(<<Lit("("), Open(1), Greedy(NotIn({")"}), 0), Lit("is"),
         Greedy(NotIn({")"}), 0), Lit("?"), Greedy(NotIn({")"}), 0), Lit(":"),
         Greedy(NotIn({")"}), 0), Close(1), Lit(").Should().Be(")>> \o Arg(2),
       <<T("Assert.Equal("), G(2), T(", "), G(1), T(")")>>)

FixFinalRules == <<
  NoArgRule(RecvBangChar, "NotBeNull", <<T("Assert.NotNull("), G(1), T(")")>>),
  NoArgRule(RecvBangChar, "BeNull", <<T("Assert.Null("), G(1), T(")")>>),
  OneArgRule(RecvBangChar, "Be",
             <<T("Assert.Equal("), G(2), T(", "), G(1), T(")")>>),
  OneArgRule(RecvBangChar, "NotBe",
             <<T("Assert.NotEqual("), G(2), T(", "), G(1), T(")")>>),
  OneArgRule(RecvBangChar, "Contain",
             <<T("Assert.Contains("), G(2), T(", "), G(1), T(")")>>),
  OneArgRule(RecvBangChar, "BeGreaterThan",
             <<T("Assert.True("), G(1), T(" > "), G(2), T(")")>>),
  OneArgRule(RecvBangChar, "BeGreaterThanOrEqualTo",
             <<T("Assert.True("), G(1), T(" >= "), G(2), T(")")>>),
  OneArgRule(RecvBangChar, "BeLessThan",
             <<T("Assert.True("), G(1), T(" < "), G(2), T(")")>>),
  OneArgRule(RecvBangChar, "BeLessThanOrEqualTo",
             <<T("Assert.True("), G(1), T(" <= "), G(2), T(")")>>),
  AnyArgRule(RecvBangChar, "BeTrue", <<T("Assert.True("), G(1), T(")")>>),
  AnyArgRule(RecvBangChar, "BeFalse", <<T("Assert.False("), G(1), T(")")>>),
  IsTernaryRule
>>

fix_final_should_patterns(buf) == ApplyRules(FixFinalRules, 1, buf)

(***************************************************************************)
(* replace_all_quotes.py                                                   *)
(***************************************************************************)
\* s.replace(old, new): every non-overlapping occurrence, leftmost first.
RECURSIVE StrReplace(_, _, _, _)
StrReplace(s, old, new, pos) ==
  LET found == {p \in pos..(Len(s) + 1 - Len(old)) :
                  SubSeq(s, p, p + Len(old) - 1) = old}
  IN IF found = {} THEN SubSeq(s, pos, Len(s))
     ELSE LET p == CHOOSE x \in found : \A y \in found : x <= y
          IN SubSeq(s, pos, p - 1) \o new
             \o StrReplace(s, old, new, p + Len(old))

\* content.split('\n'), from position pos, the current line starting at from.
RECURSIVE SplitLines(_, _, _)
SplitLines(s, from, pos) ==
  LET breaks == {p \in pos..Len(s) : CharAt(s, p) = "\n"}
  IN IF breaks = {} THEN <<SubSeq(s, from, Len(s))>>
     ELSE LET p == CHOOSE x \in breaks : \A y \in breaks : x <= y
          IN <<SubSeq(s, from, p - 1)>> \o SplitLines(s, p + 1, p + 1)

\* '\n'.join(lines)
RECURSIVE JoinLines(_, _)
JoinLines(lines, i) ==
  IF i > Len(lines) THEN ""
  ELSE IF i = Len(lines) THEN lines[i]
  ELSE lines[i] \o "\n" \o JoinLines(lines, i + 1)

LineMarkers == {"\"\"", "@\"", "json", "script", "Script", "stateMachine"}
Sentinel == "__TEMP_ESCAPED__"

\* The body of the loop over lines.
QuoteLine(line) ==
  IF \E m \in LineMarkers : Occurs(m, line, 1)
  THEN LET protected == StrReplace(line, "\\\"\"", Sentinel, 1)
           replaced == StrReplace(protected, "\"\"", "'", 1)
       IN StrReplace(replaced, Sentinel, "\\\"", 1)
  ELSE line

replace_double_quotes_comprehensive(buf) ==
  LET lines == SplitLines(buf, 1, 1)
  IN JoinLines([i \in 1..Len(lines) |-> QuoteLine(lines[i])], 1)

(***************************************************************************)
(* fix_remaining_should.py                                                 *)
(***************************************************************************)
\* (\d+)
Digits(g) == <<Open(g), Greedy(In(Digit), 1), Close(g)>>
\* ([a-zA-Z_][a-zA-Z0-9_]*) : an identifier, captured as group g
Name(g) == <<Open(g), One(In(IdentStart)), Greedy(In(IdentChar), 0), Close(g)>>
\* "([^"]+)"
QuotedText(g) ==
  <<Lit("\""), Open(g), Greedy(NotIn({"\""}), 1), Close(g), Lit("\"")>>

FixRemainingRules == <<
  Rule(<<Lit("_contextValues[\"counter\"].Should().Be(")>> \o Digits(1)
       \o <<Lit(")")>>,
       <<T("Assert.Equal("), G(1), T(", _contextValues[\"counter\"])")>>),
  Rule(<<Lit("_stateMachine.ContextMap![\"value\"].Should().Be(")>>
       \o QuotedText(1) \o <<Lit(")")>>,
       <<T("Assert.Equal(\""), G(1),
         T("\", _stateMachine.ContextMap![\"value\"])")>>),
  Rule(<<Lit("_stateMachine.ContextMap[\"value\"].Should().Be(")>>
       \o QuotedText(1) \o <<Lit(")")>>,
       <<T("Assert.Equal(\""), G(1),
         T("\", _stateMachine.ContextMap[\"value\"])")>>),
  \* \((IDENT) is Newtonsoft\.Json\.Linq\.JValue (IDENT) \? \2\.ToObject<int>\(\)
  \*   : \(int\)\(\1 \?\? 0\)\)\.Should\(\)\.Be\((\d+)\)
  Rule(<<Lit("(")>> \o Name(1) \o <<Lit(" is Newtonsoft.Json.Linq.JValue ")>>
       \o Name(2) \o <<Lit(" ? "), Ref(2), Lit(".ToObject<int>() : (int)("),
                        Ref(1), Lit(" ?? 0)).Should().Be(")>>
       \o Digits(3) \o <<Lit(")")>>,
       <<T("Assert.Equal("), G(3), T(", "), G(1),
         T(" is Newtonsoft.Json.Linq.JValue "), G(2), T(" ? "), G(2),
         T(".ToObject<int>() : (int)("), G(1), T(" ?? 0))")>>),
  Rule(<<Lit("_stateMachine.ContextMap![\"data\"].Should().Be(")>>
       \o QuotedText(1) \o <<Lit(")")>>,
       <<T("Assert.Equal(\""), G(1),
         T("\", _stateMachine.ContextMap![\"data\"])")>>)
>>

fix_remaining_patterns(buf) == ApplyRules(FixRemainingRules, 1, buf)

(***************************************************************************)
(* replace_quotes.py                                                       *)
(***************************************************************************)
ReplaceQuotesRules == <<
  \* ""([^"]+)""
  Rule(<<Lit("\"\""), Open(1), Greedy(NotIn({"\""}), 1), Close(1), Lit("\"\"")>>,
       <<T("'"), G(1), T("'")>>),
  \* "([^"]+)":\s*"([^"]+)"
  Rule(QuotedText(1) \o <<Lit(":"), Greedy(In(Space), 0)>> \o QuotedText(2),
       <<T("'"), G(1), T("': '"), G(2), T("'")>>)
>>

replace_double_quotes_in_json(buf) == ApplyRules(ReplaceQuotesRules, 1, buf)

(***************************************************************************)
(* fix_integration_tests.py                                                *)
(***************************************************************************)
\* (\w+)
Word(g) == <<Open(g), Greedy(In(IdentChar), 1), Close(g)>>

\* (\w+)MIDDLE\.Should\(\)\.NAME\(\)
WordNoArgRule(middle, name, tmpl) ==
  Rule(Word(1) \o <<Lit(middle \o ".Should()." \o name \o "()")>>, tmpl)
\* (\w+)MIDDLE\.Should\(\)\.NAME\("([^"]+)"\)
WordTextRule(middle, name, tmpl) ==
  Rule(Word(1) \o <<Lit(middle \o ".Should()." \o name \o "(")>>
       \o QuotedText(2) \o <<Lit(")")>>, tmpl)
\* (\w+)MIDDLE\.Should\(\)\.NAME\((\d+)\)
WordDigitsRule(middle, name, tmpl) ==
  Rule(Word(1) \o <<Lit(middle \o ".Should()." \o name \o "(")>>
       \o Digits(2) \o <<Lit(")")>>, tmpl)

replacements == <<
  Rule(<<Lit("carrier.Should().BeTrue()")>>, <<T("Assert.True(carrier)")>>),
  WordNoArgRule("", "BeTrue", <<T("Assert.True("), G(1), T(")")>>),
  WordNoArgRule("", "BeFalse", <<T("Assert.False("), G(1), T(")")>>),
  WordNoArgRule("", "NotBeNull", <<T("Assert.NotNull("), G(1), T(")")>>),
  WordNoArgRule("", "BeNull", <<T("Assert.Null("), G(1), T(")")>>),
  WordNoArgRule("", "NotBeEmpty", <<T("Assert.NotEmpty("), G(1), T(")")>>),
  WordTextRule(".GetCurrentState()", "Contain",
               <<T("Assert.Contains(\""), G(2), T("\", "), G(1),
                 T(".GetCurrentState())")>>),
  WordTextRule(".GetCurrentState()", "NotContain",
               <<T("Assert.DoesNotContain(\""), G(2), T("\", "), G(1),
                 T(".GetCurrentState())")>>),
  WordDigitsRule("", "HaveCount",
                 <<T("Assert.Equal("), G(2), T(", "), G(1), T(".Count)")>>),
  WordDigitsRule("", "Be", <<T("Assert.Equal("), G(2), T(", "), G(1), T(")")>>),
  WordTextRule(".EventLog", "Contain",
               <<T("Assert.Contains(\""), G(2), T("\", "), G(1),
                 T(".EventLog)")>>),
  WordDigitsRule(".GetAllJobs()", "HaveCount",
                 <<T("Assert.Equal("), G(2), T(", "), G(1),
                   T(".GetAllJobs().Count)")>>),
  WordTextRule("", "Contain",
               <<T("Assert.Contains(\""), G(2), T("\", "), G(1), T(")")>>),
  \* (\w+)\.HasMapping\("([^"]+)", "([^"]+)"\)\.Should\(\)\.BeTrue\(\)
  Rule(Word(1) \o <<Lit(".HasMapping(")>> \o QuotedText(2) \o <<Lit(", ")>>
       \o QuotedText(3) \o <<Lit(").Should().BeTrue()")>>,
       <<T("Assert.True("), G(1), T(".HasMapping(\""), G(2), T("\", \""), G(3),
         T("\"))")>>)
>>

fix_integration_tests(buf) == ApplyRules(replacements, 1, buf)


(***************************************************************************)
(* The buffers the functions are applied to.  A shape records how a buffer *)
(* is put together, so that a property can speak of its receiver, matcher  *)
(* and argument.                                                           *)
(***************************************************************************)
Shape(kind, recv, matcher, arg, sep, other, parts) ==
  [kind |-> kind, recv |-> recv, matcher |-> matcher, arg |-> arg,
   sep |-> sep, other |-> other, parts |-> parts]

\* recv.Should().matcher(arg);
Fluent(r, m, v) == Shape("fluent", r, m, v, "", "", <<>>)
\* recv.Contains(arg).Should().matcher();
Composed(r, m, v) == Shape("composed", r, m, v, "", "", <<>>)
\* recv.Assert.matcher(arg, other);
Malformed(a, m, v, b) == Shape("malformed", a, m, v, "", b, <<>>)
\* a call-based assertion and a fluent call, in either order, sep between
Pair(ok, order, fluent, sep) == Shape("pair", ok, order, fluent, sep, "", <<>>)
\* any other text
Raw(text) == Shape("raw", "", "", "", "", text, <<>>)
\* a text of pieces, for the quote rewrite
Quoted(parts) == Shape("quoted", "", "", "", "", "", parts)
\* a text of pieces with plain "key": "value" pairs, for the quote rewrites
Json(parts) == Shape("json", "", "", "", "", "", parts)
\* (e is t v ? a : b).Should().Be(n)
IsPattern(e, t, v, a, b, n) ==
  Shape("ispattern", "(" \o e \o " is " \o t \o " " \o v \o " ? " \o a
                     \o " : " \o b \o ")",
        "Be", n, "", "", <<e, t, v, a, b>>)

RECURSIVE Concat(_, _)
Concat(parts, i) ==
  IF i > Len(parts) THEN "" ELSE parts[i] \o Concat(parts, i + 1)

Render(sh) ==
  CASE sh.kind = "fluent" ->
         sh.recv \o ".Should()." \o sh.matcher \o "(" \o sh.arg \o ");"
    [] sh.kind = "composed" ->
         sh.recv \o ".Contains(" \o sh.arg \o ").Should()." \o sh.matcher \o "();"
    [] sh.kind = "malformed" ->
         sh.recv \o ".Assert." \o sh.matcher \o "(" \o sh.arg \o ", "
         \o sh.other \o ");"
    [] sh.kind = "pair" ->
         IF sh.matcher = "before"
         THEN sh.recv \o sh.sep \o sh.arg \o ";"
         ELSE sh.arg \o sh.sep \o sh.recv \o ";"
    [] sh.kind = "raw" -> sh.other
    [] sh.kind = "quoted" -> Concat(sh.parts, 1)
    [] sh.kind = "json" -> Concat(sh.parts, 1)
    [] sh.kind = "ispattern" ->
         sh.recv \o ".Should()." \o sh.matcher \o "(" \o sh.arg \o ")"

NoArgMatchers ==
  {"NotBeNull", "BeNull", "BeTrue", "BeFalse", "BeEmpty", "NotBeEmpty"}
OneArgMatchers ==
  {"Be", "NotBe", "Contain", "NotContain", "HaveCount", "BeGreaterThan",
   "BeLessThan", "BeGreaterOrEqualTo", "StartWith", "EndWith",
   "BeEquivalentTo", "BeGreaterThanOrEqualTo", "BeLessThanOrEqualTo"}

IdentChains == {"r", "a.b", "x1._y.Items"}
PlainArgs == {"1", "\"ok\"", "x, y"}
NestedArgs == {"Foo(1)"}
ParenReceivers ==
  {"(a == b)", "(n >= 1)", "(x != null ? a : b)", "(x != null ? a : \"\")",
   "(x != null ? a.c : 0)", "(c is T v ? v : 0)"}
ChainReceivers == {"a.Should().BeFalse()", "list[0].Get(k)", "a!.b"}

FluentShapes ==
  {Fluent(r, m, "") : r \in IdentChains, m \in NoArgMatchers}
  \cup {Fluent(r, m, v) : r \in IdentChains, m \in OneArgMatchers,
                          v \in PlainArgs \cup NestedArgs}
  \cup {Fluent(r, m, "") : r \in ParenReceivers \cup ChainReceivers,
                           m \in {"BeTrue", "BeFalse", "NotBeNull"}}
  \cup {Fluent(r, "Be", v) : r \in ParenReceivers \cup ChainReceivers,
                             v \in {"1", "\"v\""}}

ComposedShapes ==
  {Composed(r, m, v) : r \in IdentChains, m \in {"BeTrue", "BeFalse"},
                       v \in PlainArgs \cup NestedArgs}

MalformedShapes ==
  {Malformed(a, m, v, b) : a \in {"actor", "pingHits", "_a1"},
                           m \in {"Contains", "Equal"},
                           v \in {"\"x\"", "1", "Foo(1)", "k.v + 1",
                                  "x.Should().BeTrue()",
                                  "pingHits.Assert.Contains(y)"},
                           b \in {"log", "b_2"}}

CorrectAssertions == {"Assert.True(a)", "Assert.Equal(1, b.c)"}
FluentCalls ==
  {"x.Should().BeTrue()", "x.y.Should().Be(1)", "x.Should().NotBeNull()",
   "(p != null ? p : \"\").Should().Be(v)"}
Separators == {";\n", "; ", "\n", " ", "\n    "}

PairShapes ==
  {Pair(ok, order, fl, sep) : ok \in CorrectAssertions,
                              order \in {"before", "after"},
                              fl \in FluentCalls, sep \in Separators}

RawShapes ==
  {Raw(t) : t \in {"", "var n = list.Count;", "Assert.True(ok);",
                   "a.pingHits.Assert.Contains(x)",
                   "pongHits.Assert.Contains(\"p\");",
                   "await sm.Should().NotBeNull();"}}

\* The pieces of the quoted texts: an escaped quote, a doubled quote, words.
Escaped == "\\\"\""
Doubled == "\"\""
QuotePieces == {Escaped, Doubled, "id", ": ", "\n"}
MaxPieces == 3

RECURSIVE SeqsUpTo(_, _)
SeqsUpTo(S, n) ==
  IF n = 0 THEN {<<>>}
  ELSE LET shorter == SeqsUpTo(S, n - 1)
       IN shorter \cup {Append(q, x) : q \in shorter, x \in S}

QuotedShapes == {Quoted(q) : q \in SeqsUpTo(QuotePieces, MaxPieces)}

AssertShapes ==
  FluentShapes \cup ComposedShapes \cup MalformedShapes \cup PairShapes
  \cup RawShapes

\* Texts with "key": "value" pairs, a marked line and the sentinel's text.
JsonPieces == {"\"k\"", ": ", "\"v\"", "json ", Sentinel, Doubled}
JsonShapes == {Json(q) : q \in SeqsUpTo(JsonPieces, MaxPieces)}

\* Ternaries on an is-pattern: the branches plain or with parentheses.
IsPatternShapes ==
  {IsPattern(e, t, v, a, b, "2") :
     e \in {"counterVal", "c"},
     t \in {"Newtonsoft.Json.Linq.JValue", "T"},
     v \in {"jv"},
     a \in {"jv.ToObject<int>()", "jv.F(1)", "jv"},
     b \in {"(int)(counterVal ?? 0)", "(int)(c ?? 0)", "G(c)", "0"}}

RemainingShapes ==
  IsPatternShapes
  \cup {Raw(t) : t \in {"var n = 1;", "ok.Should().BeTrue();",
                        "_contextValues[\"counter\"].Should().Be(1);",
                        "_stateMachine.ContextMap![\"data\"].Should().Be(\"d\");"}}

AssertFns == {"fix_all_should", "fix_complex_should", "fix_final_should"}
QuoteFns == {"replace_all_quotes", "replace_quotes"}
RemainingFns == {"fix_remaining_should"}

\* How often a function is applied to the buffer it produced.
MaxRuns == 2

(***************************************************************************)
(* The rewrite functions applied to a buffer: fn is the function, original *)
(* the text read, content the current buffer and prev the buffer before    *)
(* the last application.                                                   *)
(***************************************************************************)
Idle == "idle"

InitRewrite ==
  /\ \/ shape \in AssertShapes \cup IsPatternShapes /\ fn \in AssertFns
     \/ shape \in QuotedShapes \cup JsonShapes /\ fn \in QuoteFns
     \/ shape \in RemainingShapes /\ fn \in RemainingFns
  /\ original = Render(shape)
  /\ content = original
  /\ prev = original
  /\ runs = 0
  /\ script = Idle /\ files = <<>> /\ idx = 0 /\ writes = <<>>
  /\ reported = <<>> /\ fixed_count = 0 /\ status = Idle

Apply(result) ==
  /\ runs < MaxRuns
  /\ prev' = content
  /\ content' = result
  /\ runs' = runs + 1
  /\ UNCHANGED <<fn, shape, original>>
  /\ UNCHANGED walkVars

FixAllShould ==
  fn = "fix_all_should" /\ Apply(fix_all_should_patterns(content))

FixComplexShould ==
  fn = "fix_complex_should" /\ Apply(fix_complex_should_patterns(content))

FixFinalShould ==
  fn = "fix_final_should" /\ Apply(fix_final_should_patterns(content))

ReplaceAllQuotes ==
  fn = "replace_all_quotes" /\ Apply(replace_double_quotes_comprehensive(content))

ReplaceQuotes ==
  fn = "replace_quotes" /\ Apply(replace_double_quotes_in_json(content))

FixRemainingShould ==
  fn = "fix_remaining_should" /\ Apply(fix_remaining_patterns(content))

NextRewrite ==
  \/ FixAllShould
  \/ FixComplexShould
  \/ FixFinalShould
  \/ ReplaceAllQuotes
  \/ ReplaceQuotes
  \/ FixRemainingShould

Spec == InitRewrite /\ [][NextRewrite]_vars

(***************************************************************************)
(* The scripts run over files.  files is the list the script goes through  *)
(* (the .cs and other files os.walk yields, files_to_fix, or the one file  *)
(* of fix_integration_tests.py), idx the number of entries done, writes    *)
(* the files opened for writing, reported the lines printed and            *)
(* fixed_count the script's counter (fixed_count or modified_count).  The  *)
(* io field of a file says which of its opens raises.                      *)
(***************************************************************************)
File(name, text, io) == [name |-> name, content |-> text, io |-> io]
Line(kind, path, n) == [kind |-> kind, path |-> path, n |-> n]
\* open(path, 'w') and f.write(data), of the buffer rewritten from the text read
WriteEvent(path, read, rewritten, data) ==
  [path |-> path, read |-> read, rewritten |-> rewritten, data |-> data]

WalkScripts == {"fix_all_should", "fix_complex_should", "fix_final_should"}
QuoteScripts == {"replace_all_quotes", "replace_quotes"}
RemainingScript == "fix_remaining_should"
IntegrationScript == "fix_integration_tests"

files_to_fix == <<"UnitTest_InternalTransitions.cs", "UnitTest_InvokeServices.cs">>
IntegrationFile == "StateMachineIntegrationTests.cs"
\* What os.walk yields, in its order.
DirNames == <<"A.cs", "notes.txt", "B.cs", "C.cs", "D.cs">>
MaxFiles == 3

AssertContents ==
  {"var n = 1;", "x.Should().Foo();", "ok.Should().BeTrue();",
   "a.Assert.Equal(1, b);"}
RemainingContents ==
  {"var n = 1;", "ok.Should().BeTrue();",
   "_contextValues[\"counter\"].Should().Be(1);"}
IntegrationContents ==
  {"var n = 1;", "x.Should().Foo();", "ok.Should().BeTrue();"}
QuoteContents == {"var n = 1;", "x = \"\";", "s = @\"{\"\"id\"\": 1}\";"}
OpenOutcomes == {"ok", "read_fails", "write_fails"}

\* The files of a directory of n entries, the .cs ones with texts from texts.
RECURSIVE Listings(_, _)
Listings(n, texts) ==
  IF n = 0 THEN {<<>>}
  ELSE LET name == DirNames[n]
           last == IF EndsWith(name, ".cs")
                   THEN {File(name, t, io) : t \in texts, io \in OpenOutcomes}
                   ELSE {File(name, "notes", io) : io \in {"ok", "read_fails"}}
       IN {Append(l, f) : l \in Listings(n - 1, texts), f \in last}

InitWalk ==
  /\ fn = Idle /\ shape = Raw("") /\ original = "" /\ prev = ""
  /\ content = "" /\ runs = 0
  /\ \/ /\ script \in WalkScripts
        /\ \E n \in 1..MaxFiles : files \in Listings(n, AssertContents)
        /\ status = "running"
     \/ /\ script \in QuoteScripts
        /\ \E n \in 1..MaxFiles : files \in Listings(n, QuoteContents)
        /\ status = "collecting"
     \/ /\ script = RemainingScript
        /\ files \in {<<File(files_to_fix[1], t1, o1), File(files_to_fix[2], t2, o2)>> :
                        t1 \in RemainingContents, t2 \in RemainingContents,
                        o1 \in OpenOutcomes \cup {"missing"},
                        o2 \in OpenOutcomes \cup {"missing"}}
        /\ status = "running"
     \/ /\ script = IntegrationScript
        /\ files \in {<<File(IntegrationFile, t, o)>> :
                        t \in IntegrationContents,
                        o \in OpenOutcomes \cup {"missing"}}
        /\ status = "running"
  /\ idx = 0 /\ writes = <<>> /\ reported = <<>> /\ fixed_count = 0

\* An exception nothing catches: the traceback ends the script where it is.
Uncaught ==
  /\ status' = "crashed"
  /\ UNCHANGED <<script, files, idx, writes, reported, fixed_count>>

\* continue, or the end of the loop body with nothing done
NextFile ==
  /\ idx' = idx + 1
  /\ UNCHANGED <<script, files, writes, reported, fixed_count, status>>

\* if content != original: write the file, print "Fixed: path", count it
WriteIfChanged(f, new) ==
  IF new = f.content THEN NextFile
  ELSE IF f.io = "write_fails" THEN Uncaught
  ELSE /\ files' = [files EXCEPT ![idx + 1].content = new]
       /\ writes' = Append(writes, WriteEvent(f.name, f.content, new, new))
       /\ reported' = Append(reported, Line("Fixed", f.name, 0))
       /\ fixed_count' = fixed_count + 1
       /\ idx' = idx + 1
       /\ UNCHANGED <<script, status>>

\* One iteration of the loop over os.walk of an assertion script.
WalkFile(f, marked, new) ==
  IF ~EndsWith(f.name, ".cs") THEN NextFile
  ELSE IF f.io = "read_fails" THEN Uncaught
  ELSE IF ~marked THEN NextFile
  ELSE WriteIfChanged(f, new)

FixAllShouldFile ==
  /\ script = "fix_all_should" /\ status = "running" /\ idx < Len(files)
  /\ LET f == files[idx + 1] IN
     WalkFile(f, Occurs(".Should()", f.content, 1)
                 \/ Occurs(".Assert.", f.content, 1),
              fix_all_should_patterns(f.content))
  /\ UNCHANGED rewriteVars

FixComplexShouldFile ==
  /\ script = "fix_complex_should" /\ status = "running" /\ idx < Len(files)
  /\ LET f == files[idx + 1] IN
     WalkFile(f, Occurs(".Should()", f.content, 1),
              fix_complex_should_patterns(f.content))
  /\ UNCHANGED rewriteVars

FixFinalShouldFile ==
  /\ script = "fix_final_should" /\ status = "running" /\ idx < Len(files)
  /\ LET f == files[idx + 1] IN
     WalkFile(f, Occurs(".Should()", f.content, 1),
              fix_final_should_patterns(f.content))
  /\ UNCHANGED rewriteVars

\* One iteration of the loop over files_to_fix.
FixRemainingShouldFile ==
  /\ script = RemainingScript /\ status = "running" /\ idx < Len(files)
  /\ LET f == files[idx + 1] IN
     IF f.io = "missing" THEN NextFile
     ELSE IF f.io = "read_fails" THEN Uncaught
     ELSE WriteIfChanged(f, fix_remaining_patterns(f.content))
  /\ UNCHANGED rewriteVars

\* main(): the .cs files are collected first and their number printed.
CollectCsFiles ==
  /\ script \in QuoteScripts /\ status = "collecting"
  /\ LET IsCs(f) == EndsWith(f.name, ".cs")
         cs_files == SelectSeq(files, IsCs)
     IN /\ files' = cs_files
        /\ reported' = Append(reported, Line("Found", "", Len(cs_files)))
  /\ status' = "running"
  /\ UNCHANGED <<script, idx, writes, fixed_count>>
  /\ UNCHANGED rewriteVars

\* except Exception as e: print "Error processing path", return False
Caught(f, done) ==
  /\ writes' = writes \o done
  /\ reported' = Append(reported, Line("Error", f.name, 0))
  /\ idx' = idx + 1
  /\ UNCHANGED <<script, files, fixed_count, status>>

\* process_file(filepath) and the count of main(); backups are the files
\* written before the file itself.
ProcessFile(f, new, backups) ==
  IF f.io = "read_fails" THEN Caught(f, <<>>)
  ELSE IF ~Occurs("\"\"", f.content, 1) \/ new = f.content THEN NextFile
  ELSE IF f.io = "write_fails" THEN Caught(f, backups)
  ELSE /\ files' = [files EXCEPT ![idx + 1].content = new]
       /\ writes' = writes \o backups
                    \o <<WriteEvent(f.name, f.content, new, new)>>
       /\ reported' = Append(reported, Line("Modified", f.name, 0))
       /\ fixed_count' = fixed_count + 1
       /\ idx' = idx + 1
       /\ UNCHANGED <<script, status>>

ReplaceAllQuotesFile ==
  /\ script = "replace_all_quotes" /\ status = "running" /\ idx < Len(files)
  /\ LET f == files[idx + 1]
         new == replace_double_quotes_comprehensive(f.content)
     IN ProcessFile(f, new,
                    <<WriteEvent(f.name \o ".bak", f.content, new, f.content)>>)
  /\ UNCHANGED rewriteVars

ReplaceQuotesFile ==
  /\ script = "replace_quotes" /\ status = "running" /\ idx < Len(files)
  /\ LET f == files[idx + 1] IN
     ProcessFile(f, replace_double_quotes_in_json(f.content), <<>>)
  /\ UNCHANGED rewriteVars

\* fix_integration_tests.py, from its read to its print.
FixIntegrationTests ==
  /\ script = IntegrationScript /\ status = "running" /\ idx < Len(files)
  /\ LET f == files[idx + 1]
         new == fix_integration_tests(f.content)
     IN IF f.io \in {"missing", "read_fails", "write_fails"} THEN Uncaught
        ELSE /\ files' = [files EXCEPT ![idx + 1].content = new]
             /\ writes' = Append(writes, WriteEvent(f.name, f.content, new, new))
             /\ reported' = Append(reported, Line("Fixed all", f.name, 0))
             /\ idx' = idx + 1
             /\ status' = "done"
             /\ UNCHANGED <<script, fixed_count>>
  /\ UNCHANGED rewriteVars

\* print "Total files fixed: n" / "Modified n files", after the loop
PrintTotal ==
  /\ script \in WalkScripts \cup QuoteScripts \cup {RemainingScript}
  /\ status = "running" /\ idx = Len(files)
  /\ reported' = Append(reported, Line("Total", "", fixed_count))
  /\ status' = "done"
  /\ UNCHANGED <<script, files, idx, writes, fixed_count>>
  /\ UNCHANGED rewriteVars

NextWalk ==
  \/ FixAllShouldFile
  \/ FixComplexShouldFile
  \/ FixFinalShouldFile
  \/ FixRemainingShouldFile
  \/ CollectCsFiles
  \/ ReplaceAllQuotesFile
  \/ ReplaceQuotesFile
  \/ FixIntegrationTests
  \/ PrintTotal

SpecWalk == InitWalk /\ [][NextWalk]_vars

\* The whole-file pre-check of a script: whether the content holds one of
\* the substrings without which the file is skipped.
HasMarker(f, buf) ==
  CASE f = "fix_all_should" ->
         Occurs(".Should()", buf, 1) \/ Occurs(".Assert.", buf, 1)
    [] f \in {"fix_complex_should", "fix_final_should"} ->
         Occurs(".Should()", buf, 1)
    [] f \in QuoteScripts -> Occurs("\"\"", buf, 1)

(***************************************************************************)
(* Properties.                                                             *)
(***************************************************************************)
AllIn(s, set) == \A i \in 1..Len(s) : CharAt(s, i) \in set

\* name(.name)*
IsIdentChain(r) ==
  /\ Len(r) > 0
  /\ AllIn(r, IdentChar \cup {"."})
  /\ \A i \in 1..Len(r) :
       (i = 1 \/ CharAt(r, i - 1) = ".") => CharAt(r, i) \in IdentStart
  /\ CharAt(r, Len(r)) # "."

ParenFree(v) == ~Occurs("(", v, 1) /\ ~Occurs(")", v, 1)

\* The number of parentheses open after position i; -1 once one closes
\* that was never opened.
RECURSIVE Depth(_, _)
Depth(s, i) ==
  IF i = 0 THEN 0
  ELSE LET d == Depth(s, i - 1) IN
       IF d < 0 THEN d
       ELSE IF CharAt(s, i) = "(" THEN d + 1
       ELSE IF CharAt(s, i) = ")" THEN d - 1
       ELSE d

Balanced(s) == Depth(s, Len(s)) = 0

\* The template table of the matchers.
TableNoArg == {"NotBeNull", "BeNull", "BeTrue", "BeFalse", "BeEmpty", "NotBeEmpty"}
TableOneArg ==
  {"Be", "NotBe", "Contain", "NotContain", "HaveCount", "BeGreaterThan",
   "BeLessThan", "BeGreaterOrEqualTo", "BeEquivalentTo"}

TableTemplate(m, r, v) ==
  CASE m = "NotBeNull" -> "Assert.NotNull(" \o r \o ")"
    [] m = "BeNull" -> "Assert.Null(" \o r \o ")"
    [] m = "Be" -> "Assert.Equal(" \o v \o ", " \o r \o ")"
    [] m = "NotBe" -> "Assert.NotEqual(" \o v \o ", " \o r \o ")"
    [] m = "BeTrue" -> "Assert.True(" \o r \o ")"
    [] m = "BeFalse" -> "Assert.False(" \o r \o ")"
    [] m = "Contain" -> "Assert.Contains(" \o v \o ", " \o r \o ")"
    [] m = "NotContain" -> "Assert.DoesNotContain(" \o v \o ", " \o r \o ")"
    [] m = "HaveCount" -> "Assert.Equal(" \o v \o ", " \o r \o ".Count)"
    [] m = "BeEmpty" -> "Assert.Empty(" \o r \o ")"
    [] m = "NotBeEmpty" -> "Assert.NotEmpty(" \o r \o ")"
    [] m = "BeGreaterThan" -> "Assert.True(" \o r \o " > " \o v \o ")"
    [] m = "BeLessThan" -> "Assert.True(" \o r \o " < " \o v \o ")"
    [] m = "BeGreaterOrEqualTo" -> "Assert.True(" \o r \o " >= " \o v \o ")"
    [] m = "BeEquivalentTo" -> "Assert.Equal(" \o v \o ", " \o r \o ")"
    [] m = "StartWith" -> "Assert.StartsWith(" \o v \o ", " \o r \o ")"
    [] m = "EndWith" -> "Assert.EndsWith(" \o v \o ", " \o r \o ")"

\* C1: Idempotence.  For each assertion rewrite function and any buffer,
\* applying the function to its own output changes nothing: the buffer after
\* the second application equals the buffer after the first.
C1_Idempotent == (fn \in AssertFns /\ runs = 2) => content = prev

\* The case of C2: a table matcher on an identifier chain, rewritten once.
C2_Case ==
  /\ fn = "fix_all_should"
  /\ shape.kind = "fluent"
  /\ IsIdentChain(shape.recv)
  /\ \/ shape.matcher \in TableNoArg /\ shape.arg = ""
     \/ shape.matcher \in TableOneArg /\ shape.arg # "" /\ ParenFree(shape.arg)
  /\ runs = 1

\* C2: Matcher table.  fix_all_should_patterns rewrites the statement
\* r.Should().M(v); with r a dotted identifier chain, M a matcher of the table
\* and v free of parentheses, into exactly the table's template for M with r
\* and v substituted (the result of the whole rule list, so no later rule
\* changes it).
C2_MatcherTable ==
  C2_Case => content = TableTemplate(shape.matcher, shape.recv, shape.arg) \o ";"

C2_Witness ==
  /\ C2_Case
  /\ shape.matcher = "HaveCount" /\ shape.recv = "a.b" /\ shape.arg = "1"
  /\ original = "a.b.Should().HaveCount(1);"
  /\ content = "Assert.Equal(1, a.b.Count);"

\* The case of C3: a composed Contains call, rewritten once.
C3_Case ==
  /\ fn = "fix_complex_should"
  /\ shape.kind = "composed"
  /\ IsIdentChain(shape.recv)
  /\ shape.arg # "" /\ ParenFree(shape.arg)
  /\ runs = 1

\* C3: Composed-rule priority.  fix_complex_should_patterns rewrites
\* r.Contains(item).Should().BeTrue() to Assert.Contains(item, r) and the
\* BeFalse form to Assert.DoesNotContain(item, r), for r an identifier chain and
\* item free of parentheses; the output is never the generic
\* Assert.True(r.Contains(item)) / Assert.False(r.Contains(item)).
C3_ComposedFirst ==
  C3_Case =>
    /\ content = (IF shape.matcher = "BeTrue" THEN "Assert.Contains("
                  ELSE "Assert.DoesNotContain(")
                 \o shape.arg \o ", " \o shape.recv \o ");"
    /\ ~Occurs("Assert.True(", content, 1)
    /\ ~Occurs("Assert.False(", content, 1)

C3_Witness ==
  /\ C3_Case
  /\ original = "r.Contains(1).Should().BeTrue();"
  /\ content = "Assert.Contains(1, r);"

\* The parenthesized receivers of C4.
Comparisons == {"(a == b)", "(n >= 1)"}
NullTernaries ==
  {"(x != null ? a : b)", "(x != null ? a : \"\")", "(x != null ? a.c : 0)"}
Inner(r) == SubSeq(r, 2, Len(r) - 1)

\* C4: Receiver captured whole.  In fix_complex_should_patterns, when the
\* receiver of .Should().BeTrue() / BeFalse() / Be(v) is a parenthesized
\* comparison or a parenthesized ternary (x != null ? a : b), nothing of the
\* receiver is left outside the produced call (the output begins with the
\* call), the output has balanced parentheses, and for the ternary the output
\* is Assert.Equal(v, x != null ? a : b).
C4_ReceiverWhole ==
  (/\ fn = "fix_complex_should"
   /\ shape.kind = "fluent"
   /\ \/ shape.recv \in Comparisons /\ shape.matcher \in {"BeTrue", "BeFalse", "Be"}
      \/ shape.recv \in NullTernaries /\ shape.matcher = "Be"
   /\ runs = 1)
  => /\ StartsWith(content, "Assert.")
     /\ Balanced(content)
     /\ shape.recv \in NullTernaries =>
          content = "Assert.Equal(" \o shape.arg \o ", " \o Inner(shape.recv) \o ");"

\* The one-argument matchers of C5.
C5_Matchers == TableOneArg \cup {"StartWith", "EndWith"}

\* C5: Balanced argument capture.  For every one-argument matcher rule of
\* fix_all_should_patterns, an argument that holds a nested call such as Foo(1)
\* is captured complete, so r.Should().Be(Foo(1)) becomes
\* Assert.Equal(Foo(1), r): the template with the whole argument substituted.
C5_BalancedArgument ==
  (/\ fn = "fix_all_should"
   /\ shape.kind = "fluent"
   /\ IsIdentChain(shape.recv)
   /\ shape.matcher \in C5_Matchers
   /\ shape.arg \in NestedArgs
   /\ runs = 1)
  => content = TableTemplate(shape.matcher, shape.recv, shape.arg) \o ";"

\* The case of C6 and the text the correction is to leave.
C6_Repaired ==
  /\ content = "Assert." \o shape.matcher \o "(" \o shape.arg \o ", "
               \o shape.recv \o "." \o shape.other \o ");"
  /\ ~Occurs(".Assert.Contains(", content, 1)
  /\ ~Occurs(".Assert.Equal(", content, 1)

C6_Case ==
  /\ fn = "fix_all_should"
  /\ shape.kind = "malformed"
  /\ shape.arg # "" /\ ~Occurs(",", shape.arg, 1)
  /\ runs = 1

\* C6: Correction rule.  fix_all_should_patterns rewrites the malformed
\* a.Assert.Contains(arg1, b) to Assert.Contains(arg1, a.b), and the same for
\* Equal, for all identifiers a and b; afterwards the buffer holds no
\* IDENT.Assert.Contains( or IDENT.Assert.Equal( .
C6_CorrectionRule == C6_Case => C6_Repaired

\* C7: Non-interference.  In a buffer that holds an already-correct
\* Assert.X(...) and a fluent call, separated by whitespace, newlines or a
\* statement end, fix_all_should_patterns and fix_complex_should_patterns leave
\* the correct assertion unchanged and on its own: the output still begins
\* (or ends) with the assertion and the separator.
C7_NonInterference ==
  (/\ fn \in {"fix_all_should", "fix_complex_should"}
   /\ shape.kind = "pair"
   /\ runs = 1)
  => IF shape.matcher = "before"
     THEN StartsWith(content, shape.recv \o shape.sep)
     ELSE EndsWith(content, shape.sep \o shape.recv \o ";")

\* The writes of a buffer that differs from the text read.
ChangedWrites ==
  {i \in 1..Len(writes) :
     /\ writes[i].rewritten # writes[i].read
     /\ \E j \in 1..Len(files) : files[j].name = writes[i].path}

\* C8: write only on change.  In every script a file is opened for writing
\* only if the buffer the rewrite produced differs from the text read, and
\* a file is printed as fixed or modified, and counted, only with such a
\* write: the counter is the number of files written with a changed buffer.
C8_WriteOnlyOnChange ==
  /\ \A i \in 1..Len(writes) : writes[i].rewritten # writes[i].read
  /\ \A i \in 1..Len(reported) :
       reported[i].kind \in {"Fixed", "Modified", "Fixed all"}
         => \E j \in ChangedWrites : writes[j].path = reported[i].path
  /\ fixed_count <= Cardinality(ChangedWrites)

\* C9: I/O failure isolation.  In every script that walks the file tree
\* (the three assertion scripts and the two quote scripts) an exception
\* raised by reading or writing a file is caught and printed with the
\* file's path, the remaining files are processed and the total is printed:
\* the script never ends on an exception, and when it has ended every file
\* was gone through and the last line printed is the total.
C9_FailureIsolated ==
  script \in WalkScripts \cup QuoteScripts =>
    /\ status # "crashed"
    /\ status = "done" =>
         /\ idx = Len(files)
         /\ reported # <<>> /\ reported[Len(reported)].kind = "Total"
    /\ \A i \in 1..idx :
         (EndsWith(files[i].name, ".cs") /\ files[i].io = "read_fails")
           => \E j \in 1..Len(reported) :
                reported[j] = Line("Error", files[i].name, 0)

\* The quoted text with every doubled quote replaced, the rest as it was.
RECURSIVE ExpectedQuoted(_, _)
ExpectedQuoted(parts, i) ==
  IF i > Len(parts) THEN ""
  ELSE (IF parts[i] = Doubled THEN "'" ELSE parts[i])
       \o ExpectedQuoted(parts, i + 1)

\* C10: Escaped-quote preservation.  In the output of
\* replace_double_quotes_comprehensive every escaped quote (a backslash and two
\* double quotes) stands as it stood in the input, and every other doubled
\* double quote has become one single quote.
C10_EscapedQuotePreserved ==
  (fn = "replace_all_quotes" /\ shape.kind = "quoted" /\ runs = 1)
  => content = ExpectedQuoted(shape.parts, 1)

\* C11: the pre-filter is not a correctness gate.  For every script with a
\* whole-file pre-check (the three assertion scripts and the two quote
\* scripts) and every content that fails the pre-check, the script's rewrite
\* function returns the content unchanged.
C11_PreFilterNotAGate ==
  (/\ fn \in AssertFns \cup QuoteFns
   /\ ~HasMarker(fn, original)
   /\ runs = 1)
  => content = original

\* The ternaries of C12: both branches hold a parenthesized sub-expression.
C12_Case ==
  /\ fn = "fix_final_should"
  /\ shape.kind = "ispattern"
  /\ Occurs("(", shape.parts[4], 1) /\ Occurs("(", shape.parts[5], 1)
  /\ runs = 1

\* C12: is-pattern ternary rule of fix_final_should.  fix_all_should_patterns
\* of fix_final_should.py rewrites (E is T v ? A : B).Should().Be(n), with
\* parenthesized sub-expressions in A and B, to
\* Assert.Equal(n, E is T v ? A : B), and where fix_remaining_patterns
\* rewrites the input the two outputs are the same.
C12_IsPatternTernary ==
  C12_Case =>
    /\ content = "Assert.Equal(" \o shape.arg \o ", " \o Inner(shape.recv) \o ")"
    /\ fix_remaining_patterns(original) # original
          => content = fix_remaining_patterns(original)

====
